---- MODULE Spec2Model ----
(***************************************************************************)
(* Model of src/main.py: the actor threads (Processo), their release       *)
(* timers (threading.Timer -> liberar_recurso_agendado), the detector      *)
(* thread (SistemaOperacional) and the global lock with one condition per  *)
(* resource.  A thread is inside "with global_lock" exactly while lock     *)
(* names it; wait() gives the lock up.  Statements that only touch a       *)
(* thread's own locals are taken together with the shared access before    *)
(* them.                                                                   *)
(***************************************************************************)
EXTENDS Integers, Sequences, FiniteSets, TLC

\* ---- bounds ----
NumProcessos == 2
NumRecursos == 2
\* the history counter quiet stops counting here
TickCap == 2

Processos == 1..NumProcessos
Recursos == 1..NumRecursos

\* Python's None for the object-valued fields (ids start at 1)
None == 0

\* the list App.recursos handed to every Processo and to the detector
recursos_sistema == [i \in 1..NumRecursos |-> i]
\* the list App.processos handed to the detector
processos_sistema == [i \in 1..NumProcessos |-> i]

\* ---- thread identities (owner of global_lock) ----
NoThread == [kind |-> "none", p |-> 0, r |-> 0]
ProcThread(p) == [kind |-> "P", p |-> p, r |-> 0]
TimerThread(p, r) == [kind |-> "T", p |-> p, r |-> r]
SOThread == [kind |-> "SO", p |-> 0, r |-> 0]

VARIABLES
  dono,               \* Recurso.dono, per resource
  recursos_posse,     \* Processo.recursos_posse, a list per actor
  recurso_aguardando, \* Processo.recurso_aguardando, per actor
  pc,                 \* position of each actor thread
  recurso_desejado,   \* local recurso of run()/solicitar_recurso()
  timers,             \* started threading.Timer objects not yet fired, per (actor, resource)
  lock,               \* thread holding global_lock
  so_pc,              \* position of the detector thread
  G,                  \* local graph of detectar_deadlock
  report,             \* history: the dictionary the latest tick handed to the
                      \* callback, kept until the next actor or timer step
  quiet,              \* history: ticks completed since the last actor or timer step
  pegou_aberto,       \* history: per resource, the actor of the latest PEGOU message
                      \* that no LIBEROU message has followed yet
  bloqueado_por,      \* history: per actor, the owner named in the BLOQUEADO message
                      \* it logged before the wait() it is suspended in
  running,            \* Processo.running, per actor
  so_running,         \* SistemaOperacional.running
  recursos,           \* App.recursos
  temp_process_configs, \* App.temp_process_configs
  processos,          \* App.processos
  so_thread,          \* App.so_thread
  entries,            \* text of the Entry widgets of the configuration tab
  messagebox,         \* the message box the latest handler showed
  edits               \* history: times the user retyped a timing entry

logVars == <<pegou_aberto, bloqueado_por>>
guiVars == <<recursos, temp_process_configs, processos, so_thread, entries,
             messagebox, edits>>
envVars == <<guiVars, running, so_running>>

vars == <<dono, recursos_posse, recurso_aguardando, pc,
          recurso_desejado, timers, lock, so_pc, G, report, quiet,
          pegou_aberto, bloqueado_por, running, so_running, recursos,
          temp_process_configs, processos, so_thread, entries, messagebox,
          edits>>

allocVars == <<dono, recursos_posse, recurso_aguardando>>
actorVars == <<pc, recurso_desejado>>
soVars == <<so_pc, G>>

\* ---- list helpers (Python list semantics) ----
InList(x, s) == \E i \in 1..Len(s) : s[i] = x

\* list.remove(x): drops the first occurrence
FirstIndex(x, s) == CHOOSE i \in 1..Len(s) : s[i] = x /\ \A j \in 1..(i-1) : s[j] # x
ListRemove(s, x) ==
  LET k == FirstIndex(x, s)
  IN [i \in 1..(Len(s)-1) |-> IF i < k THEN s[i] ELSE s[i+1]]

Count(x, s) == Cardinality({i \in 1..Len(s) : s[i] = x})

\* nx.DiGraph(): node name -> type attribute, and a set of directed edges
EmptyGraph == [tipo |-> <<>>, edges |-> {}]
NoReport == [graph |-> EmptyGraph, cycles |-> {}, in_deadlock |-> {}]

\* ---- the configuration tab ----

\* float() on the text of an Entry, in tenths of a second; any other text
\* raises ValueError
float(t) ==
  CASE t = "0.5" -> [ok |-> TRUE, val |-> 5]
    [] t = "1.0" -> [ok |-> TRUE, val |-> 10]
    [] t = "50.0" -> [ok |-> TRUE, val |-> 500]
    [] t = "0" -> [ok |-> TRUE, val |-> 0]
    [] t = "-1" -> [ok |-> TRUE, val |-> -10]
    [] OTHER -> [ok |-> FALSE, val |-> 0]

\* lines 203-233: the Entry widgets as build_config_tab leaves them
EntriesIniciais == [res_nome |-> "", ts |-> "0.5", tu |-> "50.0", so_time |-> "1.0"]

NoMessage == [kind |-> "", title |-> ""]
NoSOThread == [criado |-> FALSE, intervalo |-> 0, started |-> FALSE]

\* the state start_simulation leaves behind when NumRecursos resources and
\* NumProcessos actors were configured with the Entry values of build_config_tab
Init ==
  /\ pegou_aberto = [r \in Recursos |-> None]
  /\ bloqueado_por = [p \in Processos |-> None]
  /\ running = [p \in Processos |-> TRUE]
  /\ so_running = TRUE
  /\ recursos = [i \in 1..NumRecursos |-> [id |-> i, nome |-> "A"]]
  /\ temp_process_configs =
       [i \in 1..NumProcessos |-> [id |-> i, ts |-> float("0.5").val, tu |-> float("50.0").val]]
  /\ processos =
       [i \in 1..NumProcessos |->
          [p_id |-> i, delta_ts |-> float("0.5").val, delta_tu |-> float("50.0").val,
           started |-> TRUE]]
  /\ so_thread = [criado |-> TRUE, intervalo |-> float("1.0").val, started |-> TRUE]
  /\ entries = EntriesIniciais
  /\ messagebox = NoMessage
  /\ edits = 0
  /\ dono = [r \in Recursos |-> None]
  /\ recursos_posse = [p \in Processos |-> <<>>]
  /\ recurso_aguardando = [p \in Processos |-> None]
  /\ pc = [p \in Processos |-> "L68"]
  /\ recurso_desejado = [p \in Processos |-> None]
  /\ timers = [p \in Processos |-> [r \in Recursos |-> 0]]
  /\ lock = NoThread
  /\ so_pc = "L129"
  /\ G = EmptyGraph
  /\ report = NoReport
  /\ quiet = 0

\* ---- Processo.run ----

\* line 72: the resources of the system that are not in the held list
disponiveis_para_pedir(p) ==
  SelectSeq(recursos_sistema, LAMBDA r : ~InList(r, recursos_posse[p]))

\* variant: the candidates are not filtered by the held list
run_all(p) ==
  /\ pc[p] = "L68"
  /\ lock = NoThread
  /\ \E i \in 1..Len(recursos_sistema) :
       recurso_desejado' = [recurso_desejado EXCEPT ![p] = recursos_sistema[i]]
  /\ pc' = [pc EXCEPT ![p] = "L85"]
  /\ report' = NoReport /\ quiet' = 0
  /\ UNCHANGED <<allocVars, timers, lock, soVars>>
  /\ UNCHANGED <<logVars, envVars>>

\* lines 66-80: the candidates are computed inside the with block of line 71;
\* the emptiness test and random.choice read only that list, which no other
\* thread sees.  An empty list sends the thread back to the test of line 66
\* and, while running holds, to the sleep of line 68.
run(p) ==
  /\ pc[p] = "L68"
  /\ lock = NoThread
  /\ LET disponiveis == disponiveis_para_pedir(p)
     IN IF disponiveis = <<>>
          THEN /\ pc' = [pc EXCEPT ![p] = IF running[p] THEN "L68" ELSE "done"]
               /\ UNCHANGED recurso_desejado
          ELSE /\ \E i \in 1..Len(disponiveis) :
                    recurso_desejado' = [recurso_desejado EXCEPT ![p] = disponiveis[i]]
               /\ pc' = [pc EXCEPT ![p] = "L85"]
  /\ report' = NoReport /\ quiet' = 0
  /\ UNCHANGED <<allocVars, timers, lock, soVars>>
  /\ UNCHANGED <<logVars, envVars>>

\* ---- Processo.solicitar_recurso ----

\* lines 83-85: with global_lock (enter)
solicitar_enter(p) ==
  /\ pc[p] = "L85"
  /\ lock = NoThread
  /\ lock' = ProcThread(p)
  /\ pc' = [pc EXCEPT ![p] = "L87"]
  /\ report' = NoReport /\ quiet' = 0
  /\ UNCHANGED <<allocVars, recurso_desejado, timers, soVars>>
  /\ UNCHANGED <<logVars, envVars>>

\* variant: the owner is not tested, the resource is taken at once
solicitar_check_nowait(p) ==
  /\ pc[p] = "L87"
  /\ lock = ProcThread(p)
  /\ dono' = [dono EXCEPT ![recurso_desejado[p]] = p]
  /\ pc' = [pc EXCEPT ![p] = "L96"]
  /\ report' = NoReport /\ quiet' = 0
  /\ UNCHANGED <<recursos_posse, recurso_aguardando, recurso_desejado, timers, lock, soVars>>
  /\ UNCHANGED <<logVars, envVars>>

\* variant: wait() keeps the lock while the thread is suspended
solicitar_check_hold(p) ==
  /\ pc[p] = "L87"
  /\ lock = ProcThread(p)
  /\ IF dono[recurso_desejado[p]] # None
       THEN /\ recurso_aguardando' = [recurso_aguardando EXCEPT ![p] = recurso_desejado[p]]
            /\ pc' = [pc EXCEPT ![p] = "waiting"]
            /\ bloqueado_por' = [bloqueado_por EXCEPT ![p] = dono[recurso_desejado[p]]]
            /\ UNCHANGED <<dono, lock>>
       ELSE /\ dono' = [dono EXCEPT ![recurso_desejado[p]] = p]
            /\ pc' = [pc EXCEPT ![p] = "L96"]
            /\ UNCHANGED bloqueado_por
            /\ UNCHANGED <<recurso_aguardando, lock>>
  /\ report' = NoReport /\ quiet' = 0
  /\ UNCHANGED <<recursos_posse, recurso_desejado, timers, soVars>>
  /\ UNCHANGED <<pegou_aberto, envVars>>

\* lines 87-95: while recurso.dono is not None: set the waiting pointer, log
\* BLOQUEADO with the owner's id and wait(), which gives the lock up and
\* suspends; otherwise recurso.dono = self
solicitar_check(p) ==
  /\ pc[p] = "L87"
  /\ lock = ProcThread(p)
  /\ IF dono[recurso_desejado[p]] # None
       THEN /\ recurso_aguardando' = [recurso_aguardando EXCEPT ![p] = recurso_desejado[p]]
            /\ lock' = NoThread
            /\ pc' = [pc EXCEPT ![p] = "waiting"]
            /\ bloqueado_por' = [bloqueado_por EXCEPT ![p] = dono[recurso_desejado[p]]]
            /\ UNCHANGED dono
       ELSE /\ dono' = [dono EXCEPT ![recurso_desejado[p]] = p]
            /\ pc' = [pc EXCEPT ![p] = "L96"]
            /\ UNCHANGED bloqueado_por
            /\ UNCHANGED <<recurso_aguardando, lock>>
  /\ report' = NoReport /\ quiet' = 0
  /\ UNCHANGED <<recursos_posse, recurso_desejado, timers, soVars>>
  /\ UNCHANGED <<pegou_aberto, envVars>>

\* variant: "if" in place of "while", the owner is not checked again after wait()
solicitar_wake_nocheck(p) ==
  /\ pc[p] = "notified"
  /\ lock = NoThread
  /\ lock' = ProcThread(p)
  /\ dono' = [dono EXCEPT ![recurso_desejado[p]] = p]
  /\ pc' = [pc EXCEPT ![p] = "L96"]
  /\ report' = NoReport /\ quiet' = 0
  /\ UNCHANGED <<recursos_posse, recurso_aguardando, recurso_desejado, timers, soVars>>
  /\ UNCHANGED <<logVars, envVars>>

\* variant: a woken actor abandons its request
solicitar_wake_giveup(p) ==
  /\ pc[p] = "notified"
  /\ lock = NoThread
  /\ recurso_aguardando' = [recurso_aguardando EXCEPT ![p] = None]
  /\ recurso_desejado' = [recurso_desejado EXCEPT ![p] = None]
  /\ pc' = [pc EXCEPT ![p] = "L68"]
  /\ report' = NoReport /\ quiet' = 0
  /\ UNCHANGED <<dono, recursos_posse, timers, lock, soVars>>
  /\ bloqueado_por' = [bloqueado_por EXCEPT ![p] = None]
  /\ UNCHANGED <<pegou_aberto, envVars>>

\* line 92, return of wait(): a notified thread takes the lock again and is
\* back at the test of line 87
solicitar_wake(p) ==
  /\ pc[p] = "notified"
  /\ lock = NoThread
  /\ lock' = ProcThread(p)
  /\ pc' = [pc EXCEPT ![p] = "L87"]
  /\ report' = NoReport /\ quiet' = 0
  /\ UNCHANGED <<allocVars, recurso_desejado, timers, soVars>>
  /\ UNCHANGED <<logVars, envVars>>

\* variant: the waiting pointer is not cleared on acquisition
solicitar_append_noclear(p) ==
  /\ pc[p] = "L96"
  /\ lock = ProcThread(p)
  /\ recursos_posse' = [recursos_posse EXCEPT ![p] = Append(@, recurso_desejado[p])]
  /\ lock' = NoThread
  /\ timers' = [timers EXCEPT ![p][recurso_desejado[p]] = @ + 1]
  /\ recurso_desejado' = [recurso_desejado EXCEPT ![p] = None]
  /\ pc' = [pc EXCEPT ![p] = IF running[p] THEN "L68" ELSE "done"]
  /\ report' = NoReport /\ quiet' = 0
  /\ UNCHANGED <<dono, recurso_aguardando, soVars>>
  /\ pegou_aberto' = [pegou_aberto EXCEPT ![recurso_desejado[p]] = p]
  /\ UNCHANGED <<bloqueado_por, envVars>>

\* lines 96-104: clear the waiting pointer, append to the held list, log PEGOU,
\* leave the with block and start the release timer; back in run() the test
\* of line 66 leads to the next sleep or out of the loop
solicitar_append(p) ==
  /\ pc[p] = "L96"
  /\ lock = ProcThread(p)
  /\ recurso_aguardando' = [recurso_aguardando EXCEPT ![p] = None]
  /\ recursos_posse' = [recursos_posse EXCEPT ![p] = Append(@, recurso_desejado[p])]
  /\ lock' = NoThread
  /\ timers' = [timers EXCEPT ![p][recurso_desejado[p]] = @ + 1]
  /\ recurso_desejado' = [recurso_desejado EXCEPT ![p] = None]
  /\ pc' = [pc EXCEPT ![p] = IF running[p] THEN "L68" ELSE "done"]
  /\ report' = NoReport /\ quiet' = 0
  /\ UNCHANGED <<dono, soVars>>
  /\ pegou_aberto' = [pegou_aberto EXCEPT ![recurso_desejado[p]] = p]
  /\ UNCHANGED <<bloqueado_por, envVars>>

ProcStep(p) ==
  \/ run(p)
  \/ solicitar_enter(p)
  \/ solicitar_check(p)
  \/ solicitar_wake(p)
  \/ solicitar_append(p)

\* ---- Processo.liberar_recurso_agendado (timer callback) ----

\* variant: the release waits for the owner to be back in its request loop
liberar_dono_serial(p, r) ==
  /\ timers[p][r] > 0
  /\ lock = NoThread
  /\ pc[p] = "L68"
  /\ timers' = [timers EXCEPT ![p][r] = @ - 1]
  /\ IF InList(r, recursos_posse[p])
       THEN /\ lock' = TimerThread(p, r)
            /\ dono' = [dono EXCEPT ![r] = None]
       ELSE UNCHANGED <<lock, dono>>
  /\ report' = NoReport /\ quiet' = 0
  /\ UNCHANGED <<recursos_posse, recurso_aguardando, actorVars, soVars>>
  /\ UNCHANGED <<logVars, envVars>>

\* variant: the timer is rearmed when it fires
liberar_dono_rearm(p, r) ==
  /\ timers[p][r] > 0
  /\ lock = NoThread
  /\ IF InList(r, recursos_posse[p])
       THEN /\ lock' = TimerThread(p, r)
            /\ dono' = [dono EXCEPT ![r] = None]
       ELSE UNCHANGED <<lock, dono>>
  /\ report' = NoReport /\ quiet' = 0
  /\ UNCHANGED <<recursos_posse, recurso_aguardando, actorVars, timers, soVars>>
  /\ UNCHANGED <<logVars, envVars>>

\* lines 108-110: the timer of (p, r) fires, enters the with block and, when
\* the resource is in the held list, clears recurso.dono; otherwise it leaves
liberar_dono(p, r) ==
  /\ timers[p][r] > 0
  /\ lock = NoThread
  /\ timers' = [timers EXCEPT ![p][r] = @ - 1]
  /\ IF InList(r, recursos_posse[p])
       THEN /\ lock' = TimerThread(p, r)
            /\ dono' = [dono EXCEPT ![r] = None]
       ELSE UNCHANGED <<lock, dono>>
  /\ report' = NoReport /\ quiet' = 0
  /\ UNCHANGED <<recursos_posse, recurso_aguardando, actorVars, soVars>>
  /\ UNCHANGED <<logVars, envVars>>

\* variant: nobody is woken
notify_none(r) == pc

\* variant: one condition shared by all resources, every suspended thread is woken
notify_everyone(r) ==
  [q \in Processos |-> IF pc[q] = "waiting" THEN "notified" ELSE pc[q]]

\* recurso.condicao.notify_all(): every thread suspended in wait() on this condition
notify_all(r) ==
  [q \in Processos |->
     IF pc[q] = "waiting" /\ recurso_desejado[q] = r THEN "notified" ELSE pc[q]]

\* variant: the resource stays in the held list
liberar_notify_keep(p, r) ==
  /\ lock = TimerThread(p, r)
  /\ pc' = notify_all(r)
  /\ lock' = NoThread
  /\ report' = NoReport /\ quiet' = 0
  /\ UNCHANGED <<allocVars, recurso_desejado, timers, soVars>>
  /\ pegou_aberto' = [pegou_aberto EXCEPT ![r] = None]
  /\ bloqueado_por' = [q \in Processos |->
                         IF notify_all(r)[q] # pc[q] THEN None ELSE bloqueado_por[q]]
  /\ UNCHANGED envVars

\* lines 111-115: remove from the held list, log LIBEROU, notify_all, leave the
\* with block
liberar_notify(p, r) ==
  /\ lock = TimerThread(p, r)
  /\ recursos_posse' = [recursos_posse EXCEPT ![p] = ListRemove(@, r)]
  /\ pc' = notify_all(r)
  /\ lock' = NoThread
  /\ report' = NoReport /\ quiet' = 0
  /\ UNCHANGED <<dono, recurso_aguardando, recurso_desejado, timers, soVars>>
  /\ pegou_aberto' = [pegou_aberto EXCEPT ![r] = None]
  /\ bloqueado_por' = [q \in Processos |->
                         IF notify_all(r)[q] # pc[q] THEN None ELSE bloqueado_por[q]]
  /\ UNCHANGED envVars

TimerStep(p, r) ==
  \/ liberar_dono(p, r)
  \/ liberar_notify(p, r)

\* ---- SistemaOperacional.detectar_deadlock ----

\* f"P{p.p_id}" and f"R{r.id}": a prefix letter followed by the number
NomeP(p) == <<"P", p>>
NomeR(r) == <<"R", r>>
\* node.startswith("P")
StartsWithP(n) == n[1] = "P"

Nodes(g) == DOMAIN g.tipo

\* G.add_node(name, type=t)
add_node(g, n, t) ==
  CHOOSE x \in {[h EXCEPT !.tipo = [m \in (DOMAIN h.tipo) \cup {n} |->
                                     IF m = n THEN t ELSE h.tipo[m]]] : h \in {g}} : TRUE

\* G.add_edge(u, v): adds missing end points without attributes
add_edge(g, u, v) ==
  CHOOSE x \in {[tipo |-> [m \in (DOMAIN h.tipo) \cup {u, v} |->
                            IF m \in DOMAIN h.tipo THEN h.tipo[m] ELSE "none"],
                edges |-> h.edges \cup {<<u, v>>}] : h \in {g}} : TRUE

RECURSIVE AddProcNodes(_, _)
\* lines 138-139
AddProcNodes(g, i) ==
  IF i > Len(processos_sistema) THEN g
  ELSE AddProcNodes(add_node(g, NomeP(processos_sistema[i]), "processo"), i + 1)

RECURSIVE AddResNodes(_, _)
\* lines 140-141
AddResNodes(g, i) ==
  IF i > Len(recursos_sistema) THEN g
  ELSE AddResNodes(add_node(g, NomeR(recursos_sistema[i]), "recurso"), i + 1)

RECURSIVE AddOwnerEdges_reversed(_, _)
\* variant: the owner edge points from the actor to the resource
AddOwnerEdges_reversed(g, i) ==
  IF i > Len(recursos_sistema) THEN g
  ELSE LET r == recursos_sistema[i]
       IN AddOwnerEdges_reversed(
            IF dono[r] # None THEN add_edge(g, NomeP(dono[r]), NomeR(r)) ELSE g, i + 1)

RECURSIVE AddOwnerEdges(_, _)
\* lines 143-145: Recurso -> Processo for each owned resource
AddOwnerEdges(g, i) ==
  IF i > Len(recursos_sistema) THEN g
  ELSE LET r == recursos_sistema[i]
       IN AddOwnerEdges(IF dono[r] # None THEN add_edge(g, NomeR(r), NomeP(dono[r])) ELSE g,
                        i + 1)

RECURSIVE AddWaitEdges_held(_, _)
\* variant: the waiting edge is drawn only for actors that hold nothing
AddWaitEdges_held(g, i) ==
  IF i > Len(processos_sistema) THEN g
  ELSE LET p == processos_sistema[i]
       IN AddWaitEdges_held(
            IF recurso_aguardando[p] # None /\ recursos_posse[p] = <<>>
              THEN add_edge(g, NomeP(p), NomeR(recurso_aguardando[p])) ELSE g, i + 1)

RECURSIVE AddWaitEdges_all(_, _)
\* variant: a waiting actor gets an edge to every resource it does not hold
AddWaitEdges_all(g, i) ==
  IF i > Len(processos_sistema) THEN g
  ELSE LET p == processos_sistema[i]
           missing == {r \in Recursos : ~InList(r, recursos_posse[p])}
       IN AddWaitEdges_all(
            IF recurso_aguardando[p] # None
              THEN [g EXCEPT !.edges = @ \cup {<<NomeP(p), NomeR(r)>> : r \in missing}]
              ELSE g, i + 1)

RECURSIVE AddWaitEdges(_, _)
\* lines 147-149: Processo -> Recurso for each waiting actor
AddWaitEdges(g, i) ==
  IF i > Len(processos_sistema) THEN g
  ELSE LET p == processos_sistema[i]
       IN AddWaitEdges(IF recurso_aguardando[p] # None
                         THEN add_edge(g, NomeP(p), NomeR(recurso_aguardando[p])) ELSE g,
                       i + 1)

\* ---- nx.simple_cycles ----
Rank(n) == IF n[1] = "P" THEN n[2] ELSE NumProcessos + n[2]
Range(s) == {s[i] : i \in 1..Len(s)}
Succ(g, n) == {m \in Nodes(g) : <<n, m>> \in g.edges}

RECURSIVE SimplePaths(_, _)
\* the simple paths of k nodes, grown one edge at a time
SimplePaths(g, k) ==
  IF k = 1 THEN {<<n>> : n \in Nodes(g)}
  ELSE UNION {{Append(s, m) : m \in Succ(g, s[Len(s)]) \ Range(s)} : s \in SimplePaths(g, k - 1)}

\* every elementary circuit once, written from its first node in node order
simple_cycles(g) ==
  {s \in UNION {SimplePaths(g, k) : k \in 1..Cardinality(Nodes(g))} :
     /\ <<s[Len(s)], s[1]>> \in g.edges
     /\ \A i \in 2..Len(s) : Rank(s[1]) < Rank(s[i])}

\* variant: every blocked actor is collected
in_deadlock_blocked(cycles) == {NomeP(p) : p \in {x \in Processos : recurso_aguardando[x] # None}}

\* lines 157-162
in_deadlock(cycles) == {n \in UNION {Range(c) : c \in cycles} : StartsWithP(n)}

\* lines 151-168 on a graph already built
deadlock_info(g) ==
  LET cycles == simple_cycles(g)
  IN [graph |-> g, cycles |-> cycles, in_deadlock |-> in_deadlock(cycles)]

\* variant: the owner edges are read in a with block of their own
detectar_owner_edges_unlocked ==
  /\ so_pc = "L129"
  /\ lock = NoThread
  /\ G' = AddOwnerEdges(AddResNodes(AddProcNodes(EmptyGraph, 1), 1), 1)
  /\ so_pc' = "L147"
  /\ UNCHANGED <<allocVars, actorVars, timers, lock, report, quiet>>
  /\ UNCHANGED <<logVars, envVars>>

\* lines 135-145: G = nx.DiGraph(); enter the with block; the nodes and the
\* owner edges
detectar_owner_edges ==
  /\ so_pc = "L129"
  /\ lock = NoThread
  /\ lock' = SOThread
  /\ G' = AddOwnerEdges(AddResNodes(AddProcNodes(EmptyGraph, 1), 1), 1)
  /\ so_pc' = "L147"
  /\ UNCHANGED <<allocVars, actorVars, timers, report, quiet>>
  /\ UNCHANGED <<logVars, envVars>>

\* variant: the tick recovers from a deadlock by taking the resources of a cycle away
detectar_report_preempt ==
  /\ so_pc = "L147"
  /\ lock = SOThread
  /\ lock' = NoThread
  /\ report' = deadlock_info(AddWaitEdges(G, 1))
  /\ quiet' = IF quiet < TickCap THEN quiet + 1 ELSE quiet
  /\ dono' = [r \in Recursos |->
                IF \E c \in report'.cycles : NomeR(r) \in Range(c) THEN None ELSE dono[r]]
  /\ G' = EmptyGraph
  /\ so_pc' = IF so_running THEN "L129" ELSE "done"
  /\ UNCHANGED <<recursos_posse, recurso_aguardando, actorVars, timers>>
  /\ UNCHANGED <<logVars, envVars>>

\* lines 147-168 and 128-131: the waiting edges, leave the with block, then the
\* cycle search on the thread's own graph, the hand-over to the callback and
\* the test of line 128
detectar_report ==
  /\ so_pc = "L147"
  /\ lock = SOThread
  /\ lock' = NoThread
  /\ report' = deadlock_info(AddWaitEdges(G, 1))
  /\ quiet' = IF quiet < TickCap THEN quiet + 1 ELSE quiet
  /\ G' = EmptyGraph
  /\ so_pc' = IF so_running THEN "L129" ELSE "done"
  /\ UNCHANGED <<allocVars, actorVars, timers>>
  /\ UNCHANGED <<logVars, envVars>>

SOStep ==
  \/ detectar_owner_edges
  \/ detectar_report

Next ==
  \/ \E p \in Processos : ProcStep(p)
  \/ \E p \in Processos, r \in Recursos : TimerStep(p, r)
  \/ SOStep

Spec == Init /\ [][Next]_vars

NextCore ==
  \/ \E p \in Processos : ProcStep(p)
  \/ \E p \in Processos, r \in Recursos : TimerStep(p, r)

SpecCore == Init /\ [][NextCore]_vars

\* ---- the stop signal ----

\* lines 62 and 124: running is an attribute the loops of lines 66 and 128
\* poll; no statement of the program clears it, the signal is its assignment
\* from outside the thread classes
stop ==
  /\ so_running
  /\ running' = [p \in Processos |-> FALSE]
  /\ so_running' = FALSE
  /\ UNCHANGED <<allocVars, actorVars, timers, lock, soVars, report, quiet,
                 logVars, guiVars>>

NextStop ==
  \/ Next
  \/ stop

SpecStop == Init /\ [][NextStop]_vars

\* ---- the configuration tab: App.add_recurso, add_processo_config,
\* ---- start_simulation and the user typing into the Entry widgets ----

\* lines 12-13
MAX_RECURSOS == 10
MAX_PROCESSOS == 10

\* the user retypes a timing entry at most MaxEdits times
MaxEdits == 1
\* App.processos is never cleared and grows with every press of the start
\* button; it is followed up to this length
MaxCriados == 3

\* texts the user types into a timing entry
Textos == {"0", "-1", "abc"}

\* n copies of x as a Python list
Rep(n, x) == [i \in 1..n |-> x]

\* lines 174-182: App.__init__ leaves every list empty and no thread object
InitConfig ==
  /\ recursos = <<>>
  /\ temp_process_configs = <<>>
  /\ processos = <<>>
  /\ so_thread = NoSOThread
  /\ entries = EntriesIniciais
  /\ messagebox = NoMessage
  /\ edits = 0
  /\ dono = <<>>
  /\ recursos_posse = <<>>
  /\ recurso_aguardando = <<>>
  /\ pc = <<>>
  /\ recurso_desejado = <<>>
  /\ timers = <<>>
  /\ running = <<>>
  /\ so_running = FALSE
  /\ pegou_aberto = <<>>
  /\ bloqueado_por = <<>>
  /\ lock = NoThread
  /\ so_pc = "unstarted"
  /\ G = EmptyGraph
  /\ report = NoReport
  /\ quiet = 0

simVars == <<recursos_posse, recurso_aguardando, pc, recurso_desejado, running,
             so_running, bloqueado_por, lock, so_pc, G, report, quiet>>

\* line 206: the user types a name into entry_res_nome
type_res_nome ==
  /\ entries.res_nome = ""
  /\ entries' = [entries EXCEPT !.res_nome = "A"]
  /\ UNCHANGED <<recursos, temp_process_configs, processos, so_thread,
                 messagebox, edits, dono, timers, pegou_aberto, simVars>>

\* lines 216, 228, 234: the user replaces the text of a timing entry
type_timing ==
  /\ edits < MaxEdits
  /\ \E f \in {"ts", "tu", "so_time"}, t \in Textos :
       entries' = [entries EXCEPT ![f] = t]
  /\ edits' = edits + 1
  /\ UNCHANGED <<recursos, temp_process_configs, processos, so_thread,
                 messagebox, dono, timers, pegou_aberto, simVars>>

\* variant: the cap is tested with > instead of >=
add_recurso_gt ==
  /\ IF Len(recursos) > MAX_RECURSOS
       THEN /\ messagebox' = [kind |-> "showwarning", title |-> "Limite"]
            /\ UNCHANGED <<recursos, entries, dono, timers, pegou_aberto>>
       ELSE IF entries.res_nome = ""
         THEN /\ messagebox' = NoMessage
              /\ UNCHANGED <<recursos, entries, dono, timers, pegou_aberto>>
         ELSE /\ recursos' = Append(recursos,
                               [id |-> Len(recursos) + 1, nome |-> entries.res_nome])
              /\ dono' = Append(dono, None)
              /\ pegou_aberto' = Append(pegou_aberto, None)
              /\ timers' = [p \in DOMAIN timers |-> Append(timers[p], 0)]
              /\ entries' = [entries EXCEPT !.res_nome = ""]
              /\ messagebox' = NoMessage
  /\ UNCHANGED <<temp_process_configs, processos, so_thread, edits, simVars>>

\* lines 274-284
add_recurso ==
  /\ IF Len(recursos) >= MAX_RECURSOS
       THEN /\ messagebox' = [kind |-> "showwarning", title |-> "Limite"]
            /\ UNCHANGED <<recursos, entries, dono, timers, pegou_aberto>>
       ELSE IF entries.res_nome = ""
         THEN /\ messagebox' = NoMessage
              /\ UNCHANGED <<recursos, entries, dono, timers, pegou_aberto>>
         ELSE /\ recursos' = Append(recursos,
                               [id |-> Len(recursos) + 1, nome |-> entries.res_nome])
              /\ dono' = Append(dono, None)
              /\ pegou_aberto' = Append(pegou_aberto, None)
              /\ timers' = [p \in DOMAIN timers |-> Append(timers[p], 0)]
              /\ entries' = [entries EXCEPT !.res_nome = ""]
              /\ messagebox' = NoMessage
  /\ UNCHANGED <<temp_process_configs, processos, so_thread, edits, simVars>>

\* lines 286-297: float() of the second entry is not reached when the first
\* raises; either ValueError ends in the showerror of line 297
add_processo_config ==
  /\ IF Len(temp_process_configs) >= MAX_PROCESSOS
       THEN /\ messagebox' = [kind |-> "showwarning", title |-> "Limite"]
            /\ UNCHANGED temp_process_configs
       ELSE IF float(entries.ts).ok /\ float(entries.tu).ok
         THEN /\ temp_process_configs' =
                   Append(temp_process_configs,
                          [id |-> Len(temp_process_configs) + 1,
                           ts |-> float(entries.ts).val,
                           tu |-> float(entries.tu).val])
              /\ messagebox' = NoMessage
         ELSE /\ messagebox' = [kind |-> "showerror", title |-> "Erro"]
              /\ UNCHANGED temp_process_configs
  /\ UNCHANGED <<recursos, processos, so_thread, entries, edits,
                 dono, timers, pegou_aberto, simVars>>

\* lines 308-310: one Processo per queued configuration
NovosProcessos(started) ==
  [i \in 1..Len(temp_process_configs) |->
     [p_id |-> temp_process_configs[i].id,
      delta_ts |-> temp_process_configs[i].ts,
      delta_tu |-> temp_process_configs[i].tu,
      started |-> started]]

\* lines 299-320.  Thread.start() on a thread that was started before raises
\* RuntimeError: when App.processos already holds started threads, the loop
\* of line 314 ends at its first element and neither the new Processo
\* objects nor the new SistemaOperacional are started.
start_simulation ==
  /\ Len(processos) + Len(temp_process_configs) <= MaxCriados
  /\ IF recursos = <<>> \/ temp_process_configs = <<>>
       THEN /\ messagebox' = [kind |-> "showerror", title |-> "Erro"]
            /\ UNCHANGED <<processos, so_thread, simVars, timers>>
       ELSE /\ messagebox' = NoMessage
            /\ IF ~float(entries.so_time).ok
                 THEN UNCHANGED <<processos, so_thread, simVars, timers>>
                 ELSE LET n == Len(temp_process_configs)
                          first == processos = <<>>
                      IN /\ processos' = processos \o NovosProcessos(first)
                         /\ so_thread' = [criado |-> TRUE,
                                          intervalo |-> float(entries.so_time).val,
                                          started |-> first]
                         /\ recursos_posse' = recursos_posse \o Rep(n, <<>>)
                         /\ recurso_aguardando' = recurso_aguardando \o Rep(n, None)
                         /\ recurso_desejado' = recurso_desejado \o Rep(n, None)
                         /\ running' = running \o Rep(n, TRUE)
                         /\ bloqueado_por' = bloqueado_por \o Rep(n, None)
                         /\ timers' = timers \o Rep(n, Rep(Len(recursos), 0))
                         /\ pc' = pc \o Rep(n, IF first THEN "L68" ELSE "unstarted")
                         /\ so_running' = TRUE
                         /\ so_pc' = IF first THEN "L129" ELSE so_pc
                         /\ UNCHANGED <<lock, G, report, quiet>>
  /\ UNCHANGED <<recursos, temp_process_configs, entries, edits, dono, pegou_aberto>>

NextConfig ==
  \/ type_res_nome
  \/ type_timing
  \/ add_recurso
  \/ add_processo_config
  \/ start_simulation

SpecConfig == InitConfig /\ [][NextConfig]_vars

\* ---- the allocation graph of a state, read off the fields directly ----
AllNodes == {NomeP(p) : p \in Processos} \cup {NomeR(r) : r \in Recursos}

AllocEdges(d, w) ==
  {<<NomeR(r), NomeP(d[r])>> : r \in {x \in Recursos : d[x] # None}}
    \cup {<<NomeP(p), NomeR(w[p])>> : p \in {x \in Processos : w[x] # None}}

RECURSIVE ReachFrom(_, _)
ReachFrom(E, S) ==
  LET T == S \cup {e[2] : e \in {x \in E : x[1] \in S}}
  IN IF T = S THEN S ELSE ReachFrom(E, T)

\* n lies on a directed cycle: n is reachable from its own successors
OnCycle(E, n) == n \in ReachFrom(E, {e[2] : e \in {x \in E : x[1] = n}})
CycleActors(E) == {p \in Processos : OnCycle(E, NomeP(p))}
CycleEdges(E) == {e \in E : OnCycle(E, e[1]) /\ e[2] \in ReachFrom(E, {e[1]}) /\ e[1] \in ReachFrom(E, {e[2]})}

\* the elementary circuits of E, by definition: a set S of nodes with a
\* successor map that is a permutation of S along edges of E and has one orbit,
\* written as the node sequence that starts at the least node of S
Busy(E) == {n \in AllNodes : OnCycle(E, n)}
Least(S) == CHOOSE n \in S : \A m \in S : Rank(n) <= Rank(m)
RECURSIVE Iterate(_, _, _)
Iterate(f, n, i) == IF i = 0 THEN n ELSE f[Iterate(f, n, i - 1)]
IsCircuit(E, S, f) ==
  /\ \A n \in S : <<n, f[n]>> \in E
  /\ {Iterate(f, Least(S), i) : i \in 0..(Cardinality(S) - 1)} = S
CircuitsOn(E, S) ==
  {[i \in 1..Cardinality(S) |-> Iterate(f, Least(S), i - 1)] :
     f \in {g \in Permutations(S) : IsCircuit(E, S, g)}}
ElementaryCircuits(E) ==
  UNION {CircuitsOn(E, S) : S \in (SUBSET Busy(E)) \ {{}}}

StateEdges == AllocEdges(dono, recurso_aguardando)
Fresh == report # NoReport
InWait(p) == pc[p] \in {"waiting", "notified"}

\* C1: every resource has at most one holder, counting both the owner field
\* and the held lists, in every state (inside critical sections too).
Holders(r) == {p \in Processos : dono[r] = p \/ InList(r, recursos_posse[p])}
C1_MutualExclusion == \A r \in Recursos : Cardinality(Holders(r)) <= 1

\* an actor woken by a release re-checks a resource another actor took first
C1_Witness ==
  \E p, q \in Processos, r \in Recursos :
    /\ p # q /\ dono[r] = p /\ InList(r, recursos_posse[p])
    /\ pc[q] = "L87" /\ lock = ProcThread(q) /\ recurso_aguardando[q] = r

\* C2: with the global lock free, r.dono is p exactly when r is in
\* p.recursos_posse, and r is in that list at most once.
C2_OwnershipConsistency ==
  lock = NoThread =>
    \A r \in Recursos, p \in Processos :
      /\ (dono[r] = p) <=> InList(r, recursos_posse[p])
      /\ Count(r, recursos_posse[p]) <= 1

\* lock free, one actor holds every resource, after at least one release
C2_Witness ==
  /\ lock = NoThread
  /\ \E p \in Processos : Len(recursos_posse[p]) = NumRecursos
  /\ \E q \in Processos : InWait(q)

\* C3: seen by any thread other than the actor itself, recurso_aguardando is
\* set exactly while the actor is inside wait() of its request, and then it is
\* the resource of that request.
C3_WaitingConsistency ==
  \A p \in Processos :
    lock # ProcThread(p) =>
      /\ (recurso_aguardando[p] # None) <=> InWait(p)
      /\ InWait(p) => recurso_aguardando[p] = recurso_desejado[p]

\* the detector holds the lock while one actor is suspended and another has
\* just acquired
C3_Witness ==
  /\ lock = SOThread
  /\ \E p, q \in Processos :
       /\ pc[p] = "waiting" /\ recurso_aguardando[p] # None
       /\ pc[q] = "L68" /\ recurso_aguardando[q] = None
       /\ \E r \in Recursos : dono[r] = q

\* C4: an actor never requests or waits for a resource of its own held list,
\* and no reported cycle has fewer than two distinct actors.
Requesting(p) == pc[p] \in {"L85", "L87", "waiting", "notified"}
C4_NoSelfDeadlock ==
  /\ \A p \in Processos :
       /\ Requesting(p) =>
            /\ ~InList(recurso_desejado[p], recursos_posse[p])
            /\ dono[recurso_desejado[p]] # p
       /\ recurso_aguardando[p] # None =>
            ~InList(recurso_aguardando[p], recursos_posse[p])
  /\ \A c \in report.cycles :
       /\ Len(c) # 2
       /\ Cardinality({n \in Range(c) : StartsWithP(n)}) >= 2

\* an actor that holds a resource is suspended on another one and a cycle was reported
C4_Witness ==
  /\ \E p \in Processos :
       pc[p] = "waiting" /\ recursos_posse[p] # <<>>
  /\ report.cycles # {}

\* C5: a report names exactly the actors on a directed cycle of the allocation
\* graph and lists exactly its elementary circuits; two actors that each hold
\* what the other waits for give one cycle through both.
CrossWait(p, q, a, b) ==
  /\ dono[a] = p /\ recurso_aguardando[p] = b
  /\ dono[b] = q /\ recurso_aguardando[q] = a
C5_DeadlockDetected ==
  Fresh =>
    /\ report.in_deadlock = {NomeP(p) : p \in CycleActors(StateEdges)}
    /\ report.cycles = ElementaryCircuits(StateEdges)
    /\ \A p, q \in Processos, a, b \in Recursos :
         (p # q /\ CrossWait(p, q, a, b)) =>
           /\ Cardinality({c \in report.cycles : NomeP(p) \in Range(c)}) = 1
           /\ \A c \in report.cycles : NomeP(p) \in Range(c) => NomeP(q) \in Range(c)
           /\ {NomeP(p), NomeP(q)} \subseteq report.in_deadlock

C5_Witness ==
  /\ Fresh
  /\ CrossWait(1, 2, 1, 2)
  /\ Cardinality(report.cycles) = 1
  /\ report.in_deadlock = {NomeP(1), NomeP(2)}

\* C6: a blocked actor that is on no cycle is in no reported cycle and not in
\* the deadlocked set; with no cycle at all the report is empty.
C6_NoFalsePositive ==
  Fresh =>
    /\ \A p \in Processos :
         (recurso_aguardando[p] # None /\ p \notin CycleActors(StateEdges)) =>
           /\ NomeP(p) \notin report.in_deadlock
           /\ \A c \in report.cycles : NomeP(p) \notin Range(c)
    /\ CycleActors(StateEdges) = {} => (report.cycles = {} /\ report.in_deadlock = {})

\* P1 holds A and is not waiting, P2 holds B and waits for A
C6_Witness ==
  /\ Fresh
  /\ dono[1] = 1 /\ recurso_aguardando[1] = None
  /\ dono[2] = 2 /\ recurso_aguardando[2] = 1
  /\ report.cycles = {} /\ report.in_deadlock = {}

\* C7: the graph of a report has one node per actor and per resource, typed,
\* and exactly the owner edges and the waiting edges of the state.
C7_GraphExactness ==
  Fresh =>
    /\ Nodes(report.graph) = AllNodes
    /\ \A p \in Processos : report.graph.tipo[NomeP(p)] = "processo"
    /\ \A r \in Recursos : report.graph.tipo[NomeR(r)] = "recurso"
    /\ \A r \in Recursos, p \in Processos :
         (<<NomeR(r), NomeP(p)>> \in report.graph.edges) <=> dono[r] = p
    /\ \A p \in Processos, r \in Recursos :
         (<<NomeP(p), NomeR(r)>> \in report.graph.edges) <=> recurso_aguardando[p] = r
    /\ \A e \in report.graph.edges :
         \/ \E r \in Recursos, p \in Processos : e = <<NomeR(r), NomeP(p)>>
         \/ \E p \in Processos, r \in Recursos : e = <<NomeP(p), NomeR(r)>>

\* a report whose graph has an owner edge and a waiting edge
C7_Witness ==
  /\ Fresh
  /\ \E r \in Recursos : dono[r] # None
  /\ \E p \in Processos : recurso_aguardando[p] # None
  /\ \E r \in Recursos : dono[r] = None

\* scheduling: a started timer runs when it can, and an actor thread keeps
\* getting its turn, also at the lock, which is released again and again
FairThreads ==
  /\ \A p \in Processos : SF_vars(ProcStep(p))
  /\ \A p \in Processos, r \in Recursos : WF_vars(TimerStep(p, r))

FairSpec == Init /\ [][NextCore]_vars /\ FairThreads

\* scheduling: the program does not stand still while some thread can run
FairWeak == Init /\ [][NextCore]_vars /\ WF_vars(NextCore)

ReleasedUnder(p, r) == InWait(p) /\ recurso_aguardando[p] = r /\ dono[r] = None

\* C8 as stated: an actor waiting on r when r is released eventually owns r,
\* when every actor thread and every timer thread is scheduled fairly.
C8_WaiterAcquires ==
  FairThreads =>
    \A p \in Processos, r \in Recursos :
      ReleasedUnder(p, r) ~> (dono[r] = p)

\* C8 amended: an actor that waits on a resource when it is released is woken
\* and re-checks it under the lock: it eventually stands in its critical
\* section as the owner of that resource, or at the test of line 87 with the
\* resource owned by another actor that took it first, provided its own
\* thread keeps getting its turn at the lock.
WaitsOnFree(p) ==
  InWait(p) /\ recurso_aguardando[p] # None /\ dono[recurso_aguardando[p]] = None
C8_WaiterRechecks ==
  \A p \in Processos :
    SF_vars(ProcStep(p)) =>
      (WaitsOnFree(p) ~>
         /\ lock = ProcThread(p)
         /\ recurso_aguardando[p] # None
         /\ \/ pc[p] = "L96" /\ dono[recurso_aguardando[p]] = p
            \/ pc[p] = "L87" /\ dono[recurso_aguardando[p]] \notin {None, p})

\* r was released while an actor waited on it, and that actor now owns it
C8_Witness ==
  \E p \in Processos, r \in Recursos :
    /\ recurso_aguardando[p] = r /\ dono[r] = p /\ pc[p] = "L96"
    /\ \E q \in Processos : q # p /\ pc[q] = "L85" /\ recurso_desejado[q] = r

\* the waiting pointers as a thread outside the critical section of lines
\* 95-97 sees them: the actor at line 96 is the owner already
Blocked(w, c) == [p \in Processos |-> IF c[p] = "L96" THEN None ELSE w[p]]
BlockedEdges == AllocEdges(dono, Blocked(recurso_aguardando, pc))
StaysOnCycle(p) ==
  /\ recurso_aguardando'[p] = recurso_aguardando[p]
  /\ p \in CycleActors(AllocEdges(dono', Blocked(recurso_aguardando', pc')))

\* C9 as stated: a step never takes an actor off a cycle of the allocation graph.
C9_CyclePermanent ==
  [][\A p \in CycleActors(BlockedEdges) : StaysOnCycle(p)]_vars

\* C9 amended: the only step that takes an actor off a cycle is the release of a
\* resource by the hold timer of its owner; no actor step or detector step does.
TimerRelease ==
  \E r \in Recursos :
    /\ dono[r] # None /\ dono'[r] = None
    /\ lock = NoThread /\ lock' = TimerThread(dono[r], r)
C9_CycleUntilRelease ==
  [][(\A p \in CycleActors(BlockedEdges) : StaysOnCycle(p)) \/ TimerRelease]_vars

\* an actor on a cycle was woken, re-checks under the lock and the cycle is still there
C9_Witness ==
  \E p \in CycleActors(BlockedEdges) :
    pc[p] = "L87" /\ recurso_aguardando[p] # None /\ lock = ProcThread(p)

\* C10: a tick that follows a tick with no actor or timer step in between
\* hands over the same graph, cycles and deadlocked set.
TickReturns == so_pc = "L147" /\ so_pc' = "L129"
C10_IdempotentSnapshot ==
  [][(TickReturns /\ quiet >= 1) => report' = report]_vars

\* two ticks in a row reported a deadlock
C10_Witness ==
  /\ quiet = 2
  /\ report.cycles # {}
  /\ report.in_deadlock # {}

\* C11: a tick reads the owners and the waiting pointers inside one hold of
\* global_lock: from the start of the snapshot to its end the detector has the
\* lock, no step changes an allocation field, the half-built graph has the
\* owner edges of the state, and the graph handed over is the allocation graph
\* of that one state.
OwnerEdges(d) == AllocEdges(d, [p \in Processos |-> None])
C11_ConsistentSnapshot ==
  [][/\ so_pc = "L147" => (lock = SOThread /\ G.edges = OwnerEdges(dono))
     /\ lock = SOThread => UNCHANGED allocVars
     /\ TickReturns =>
          /\ report'.graph.edges = AllocEdges(dono, recurso_aguardando)
          /\ report'.graph.edges = AllocEdges(dono', recurso_aguardando')]_vars

\* the detector is in the middle of a snapshot while an actor stands at the
\* lock with a request, another is suspended and a release timer is pending
C11_Witness ==
  /\ so_pc = "L147" /\ lock = SOThread /\ G.edges # {}
  /\ \E p \in Processos : pc[p] = "L85"
  /\ \E p \in Processos : pc[p] = "waiting"
  /\ \E p \in Processos, r \in Recursos : timers[p][r] > 0

\* C17: an actor suspended in wait() (or notified and not yet back in the with
\* block) does not hold global_lock, and whenever the lock is free the detector
\* tick, every pending release timer and every actor standing at the with
\* block can enter its critical section, however many actors are suspended.
C17_SuspendedHoldsNoLock ==
  /\ \A p \in Processos : InWait(p) => lock # ProcThread(p)
  /\ lock.kind = "P" => pc[lock.p] \in {"L87", "L96"}
  /\ lock = NoThread =>
       /\ ENABLED detectar_owner_edges
       /\ \A p \in Processos, r \in Recursos :
            timers[p][r] > 0 => ENABLED liberar_dono(p, r)
       /\ \A p \in Processos : pc[p] = "L85" => ENABLED solicitar_enter(p)

\* every actor is suspended, the detector is inside its snapshot and a release
\* timer is still to fire
C17_Witness ==
  /\ \A p \in Processos : pc[p] = "waiting"
  /\ lock = SOThread
  /\ \E p \in Processos, r \in Recursos : timers[p][r] > 0

\* C18: in the graph of every report each node has at most one outgoing edge,
\* every edge joins an actor node and a resource node, two distinct reported
\* cycles have no node in common, and along a reported cycle actor nodes and
\* resource nodes alternate.
OutEdges(g, n) == {e \in g.edges : e[1] = n}
C19_TimersMatchHoldings ==
  \A p \in Processos, r \in Recursos :
    /\ timers[p][r] <= 1
    /\ timers[p][r] > 0 => (dono[r] = p /\ InList(r, recursos_posse[p]))
    /\ lock = TimerThread(p, r) =>
         (dono[r] = None /\ InList(r, recursos_posse[p]) /\ timers[p][r] = 0)

\* an actor holds every resource with one timer pending for each, while
\* another actor is suspended
C19_Witness ==
  \E p \in Processos :
    /\ \A r \in Recursos : timers[p][r] = 1
    /\ pc[p] = "L68"
    /\ \E q \in Processos : q # p /\ InWait(q)

\* C16: the release of r wakes every actor suspended on r and leaves every
\* actor suspended on another resource asleep; a woken actor goes back to the
\* test of line 87 with the lock; there it becomes owner only when r has no
\* owner, and otherwise is suspended again still waiting for r.
ReleaseNotifies(p, r) == lock = TimerThread(p, r) /\ lock' = NoThread
ReleasedByTimer ==
  \A p \in Processos, r \in Recursos :
    (dono[r] = p /\ dono'[r] # p) => (dono'[r] = None /\ lock' = TimerThread(p, r))
C15_IndependentRelease ==
  /\ [][ReleasedByTimer]_vars
  /\ \A r \in Recursos :
       (\A p \in Processos : SF_vars(TimerStep(p, r))) =>
         ((dono[r] # None) ~> (dono[r] = None))

\* the hold timer of an actor fires while that actor is suspended on another
\* resource
C15_Witness ==
  \E p \in Processos, r \in Recursos :
    /\ lock = TimerThread(p, r)
    /\ pc[p] = "waiting" /\ recurso_aguardando[p] # r

\* C20: per resource the PEGOU and LIBEROU messages alternate, starting with
\* PEGOU, a LIBEROU names the actor of the PEGOU before it, and a BLOQUEADO
\* message names the actor that owns the resource when it is logged.
LogsPegou(p, r) ==
  pc[p] = "L96" /\ pc'[p] # "L96" /\ recurso_desejado[p] = r
LogsLiberou(p, r) == lock = TimerThread(p, r) /\ lock' # lock
LogsBloqueado(p, r) ==
  pc[p] = "L87" /\ pc'[p] = "waiting" /\ recurso_desejado[p] = r
C20_EventOrdering ==
  [][\A p \in Processos, r \in Recursos :
       /\ LogsPegou(p, r) => (pegou_aberto[r] = None /\ pegou_aberto'[r] = p)
       /\ LogsLiberou(p, r) => (pegou_aberto[r] = p /\ pegou_aberto'[r] = None)
       /\ ~(\E q \in Processos : LogsPegou(q, r) \/ LogsLiberou(q, r)) =>
            pegou_aberto'[r] = pegou_aberto[r]
       /\ LogsBloqueado(p, r) =>
            (bloqueado_por'[p] # None /\ bloqueado_por'[p] = dono[r]
               /\ bloqueado_por'[p] = dono'[r])]_vars

\* an actor is blocked on a resource whose latest message is the PEGOU of
\* another actor, named in its BLOQUEADO message, while the timer of that actor
\* is about to log the LIBEROU of a second resource
C20_Witness ==
  \E p, q \in Processos, r, r2 \in Recursos :
    /\ p # q /\ r # r2
    /\ pegou_aberto[r] = q /\ pegou_aberto[r2] = q
    /\ lock = TimerThread(q, r2)
    /\ bloqueado_por[p] = q /\ pc[p] = "waiting" /\ recurso_aguardando[p] = r

\* C14 as stated: once running is false no actor passes the loop test into a
\* new request cycle, and the release timers still pending are cancelled, so
\* that none of them fires any more.
Stopped == ~so_running /\ \A p \in Processos : ~running[p]
C14_ShutdownCancelsTimers ==
  [][Stopped =>
       /\ \A p \in Processos : pc[p] # "L68" => pc'[p] # "L68"
       /\ \A p \in Processos, r \in Recursos :
            timers'[p][r] >= timers[p][r]]_vars

Limite == [kind |-> "showwarning", title |-> "Limite"]
ThreadsAndLists == <<recursos, temp_process_configs, processos, so_thread, pc, so_pc>>

\* C12: the configured lists never exceed 10 entries; an attempt to add an
\* item to a list that already has 10 shows the "Limite" warning, adds
\* nothing and starts no thread.
C12_CapacityBound ==
  [][/\ Len(recursos') <= MAX_RECURSOS
     /\ Len(temp_process_configs') <= MAX_PROCESSOS
     /\ Len(recursos) >= MAX_RECURSOS => recursos' = recursos
     /\ Len(temp_process_configs) >= MAX_PROCESSOS =>
          temp_process_configs' = temp_process_configs
     /\ (Len(recursos) >= MAX_RECURSOS /\ add_recurso) => messagebox' = Limite
     /\ (Len(temp_process_configs) >= MAX_PROCESSOS /\ add_processo_config) =>
          messagebox' = Limite
     /\ (messagebox' = Limite /\ messagebox' # messagebox) =>
          /\ Len(recursos) = MAX_RECURSOS \/ Len(temp_process_configs) = MAX_PROCESSOS
          /\ UNCHANGED ThreadsAndLists]_vars

\* both lists are full, the simulation was started earlier, a name is typed
\* and the latest press of an add button ended in the warning
C12_Witness ==
  /\ Len(recursos) = MAX_RECURSOS
  /\ Len(temp_process_configs) = MAX_PROCESSOS
  /\ entries.res_nome # ""
  /\ so_thread.started
  /\ messagebox = Limite

\* C13 as stated: whenever a thread of the simulation has been started, every
\* started actor has a positive request interval and a positive hold
\* duration, and the started detector has a positive interval.
C13_NonPositiveRejected ==
  /\ \A i \in 1..Len(processos) :
       processos[i].started => processos[i].delta_ts > 0 /\ processos[i].delta_tu > 0
  /\ so_thread.started => so_thread.intervalo > 0

====
